---- MODULE Spec2Model ----
(***************************************************************************)
(* Model of main.py of pensoft/taxonomic_tree_builder: the resolver that   *)
(* builds the taxon tree from a delimited file (first pass, retry pass     *)
(* over the deferred byte offsets), the lineage builder and the export     *)
(* loop.  The treelib Tree is a function from node identifier to node.     *)
(***************************************************************************)
EXTENDS Integers, Sequences, FiniteSets, TLC

\* Largest number of data lines of an input file.
MaxRows == 3

\* Largest length the list __faild_rows may grow to in the model.
MaxFaild == 4

\* Largest number of rows by which a long input file exceeds a multiple of
\* the batch modulus.
MaxExtra == 2

\* Rows per submitted batch test of save_to_database (i % 100).
BatchModulus == 100

\* os.cpu_count() of the hosts the export is run on: one processor, four,
\* and enough for the largest default pool.
CpuCounts == {1, 4, 28}

\* Builders run one after the other in one process, at most.
MaxRuns == 2

\* Python's None, and the marker of a raised exception.  Both hold an
\* upper-case letter, so neither equals a lower-cased node identifier.
NoneVal == "None"

Raised == "Raise"

\* str.lower() on the strings the input files are made of.
Lower(s) ==
    CASE s = "A" -> "a"
      [] s = "B" -> "b"
      [] s = "C" -> "c"
      [] s = "ROOT" -> "root"
      [] s = "Root" -> "root"
      [] OTHER -> s

\* slug(): re.sub(r'[\W_]+', '_', value).lower() on the header names used.
slug(value) ==
    CASE value = "dwc:taxonID" -> "dwc_taxonid"
      [] value = "parentID" -> "parentid"
      [] value = "accepted ID" -> "accepted_id"
      [] OTHER -> Lower(value)

\* get_value_or_default(value, key, default); a dict is a function, and
\* None (no key can be read from it) is the empty function.
get_value_or_default(value, key, default) ==
    IF key \in DOMAIN value THEN value[key] ELSE default

Min(a, b) == IF a < b THEN a ELSE b

\* Worker threads of ThreadPoolExecutor() with no max_workers given, as at
\* line 621: min(32, (os.cpu_count() or 1) + 4).
default_max_workers(cpu_count) == Min(32, cpu_count + 4)

RECURSIVE Reverse(_)
Reverse(q) == IF q = <<>> THEN <<>> ELSE Append(Reverse(Tail(q)), Head(q))

-----------------------------------------------------------------------------
(* The input file: a sequence of lines, each the sequence of its fields.   *)

HeaderLine == <<"dwc:taxonID", "parentID", "accepted ID">>

TaxonIds == {"A", "B", "C"}

\* The data lines the input files are made of: a taxon, optionally its
\* parent, optionally its accepted usage; no line refers to itself.  An
\* identifier no line of a file defines is a reference that never appears.
Records ==
    { r \in TaxonIds \X (TaxonIds \cup {""}) \X (TaxonIds \cup {""}) :
          r[2] # r[1] /\ r[3] # r[1] }

\* The taxon names are interchangeable: a file is taken with its taxa named
\* in the order of their first lines ("A", then "B", then "C").
InOrderOfFirstUse(body) ==
    \A i \in 1..Len(body) :
        /\ body[i][1] = "B" => \E j \in 1..(i - 1) : body[j][1] = "A"
        /\ body[i][1] = "C" => \E j \in 1..(i - 1) : body[j][1] = "B"

\* The input files: the header line and at most MaxRows data lines.
Files ==
    { <<HeaderLine>> \o body :
        body \in { b \in UNION { [1..n -> Records] : n \in 0..MaxRows } :
                      InOrderOfFirstUse(b) } }

\* Lines that do not split into three fields: the empty line, a line of
\* one field and lines of two fields.
MalformedLines == {<<>>, <<"A">>, <<"A", "">>, <<"B", "A">>}

\* Input files over the taxa "A" and "B" in which any line may be malformed.
FilesWithMalformedLines ==
    LET lines == {r \in Records : \A i \in 1..3 : r[i] # "C"} \cup MalformedLines
    IN  { <<HeaderLine>> \o body :
            body \in UNION { [1..n -> lines] : n \in 0..MaxRows } }

\* A long input file of n data lines: taxa "1" .. "n" without parent, the
\* first of them (when there are two or more) a child of the second, which
\* the file defines after it.
LongFile(n) ==
    <<HeaderLine>> \o
    [i \in 1..n |-> IF i = 1 /\ n >= 2 THEN <<"1", "2", "">> ELSE <<ToString(i), "", "">>]

\* Long input files: of no line, of two lines, and of one and two batch
\* moduli of lines and up to MaxExtra more.
LongFiles ==
    {LongFile(n) : n \in {0, 2} \cup {k * BatchModulus + e : k \in 1..2, e \in 0..MaxExtra}}

RECURSIVE SumLen(_)
SumLen(fields) ==
    IF fields = <<>> THEN 0 ELSE Len(Head(fields)) + SumLen(Tail(fields))

\* Bytes of one line: the fields, the tabs between them and the newline.
LineBytes(fields) ==
    SumLen(fields) + (IF Len(fields) > 0 THEN Len(fields) - 1 ELSE 0) + 1

RECURSIVE OffsetOf(_, _)
\* f.tell() before line k (1-based) of file f.
OffsetOf(f, k) ==
    IF k <= 1 THEN 0 ELSE OffsetOf(f, k - 1) + LineBytes(f[k - 1])

FileSize(f) == OffsetOf(f, Len(f) + 1)

RECURSIVE BytesOf(_, _, _)
\* Bytes of the lines a .. b of file f.
BytesOf(f, a, b) ==
    IF a > b THEN 0
    ELSE IF a = b THEN LineBytes(f[a])
    ELSE LET m == (a + b) \div 2 IN BytesOf(f, a, m) + BytesOf(f, m + 1, b)

RECURSIVE line_in(_, _, _, _, _)
\* The number of the line among lines lo .. hi of f that starts at byte
\* pos, 0 if none does; line lo starts at byte off.  The lines are halved
\* until one is left.
line_in(f, pos, lo, hi, off) ==
    IF lo > hi THEN 0
    ELSE IF lo = hi THEN (IF off = pos THEN lo ELSE 0)
    ELSE LET m == (lo + hi) \div 2
             next == off + BytesOf(f, lo, m)
         IN  IF pos < next THEN line_in(f, pos, lo, m, off)
             ELSE line_in(f, pos, m + 1, hi, next)

\* f.seek(pos): the number of the line of f that starts at byte pos, 0 if
\* none does.
line_at(f, pos) == line_in(f, pos, 1, Len(f), 0)

\* read_line with the position taken after readline() instead of before.
read_line_tell_after(f, pos) ==
    LET k == line_at(f, pos)
    IN  IF k > 0
        THEN [bytes |-> pos + LineBytes(f[k]), eof |-> FALSE, line |-> f[k],
              next |-> pos + LineBytes(f[k])]
        ELSE [bytes |-> pos, eof |-> TRUE, line |-> <<>>, next |-> pos]

\* read_line with a readline() that leaves the file position where it was.
read_line_in_place(f, pos) ==
    LET k == line_at(f, pos)
    IN  IF k > 0
        THEN [bytes |-> pos, eof |-> FALSE, line |-> f[k], next |-> pos]
        ELSE [bytes |-> pos, eof |-> TRUE, line |-> <<>>, next |-> pos]

\* read_line(file): the position and the line read there; at end of file
\* readline() returns the empty string (eof).
read_line(f, pos) ==
    LET k == line_at(f, pos)
    IN  IF k > 0
        THEN [bytes |-> pos, eof |-> FALSE, line |-> f[k],
              next |-> pos + LineBytes(f[k])]
        ELSE [bytes |-> pos, eof |-> TRUE, line |-> <<>>, next |-> pos]

\* process_line(): the row yielded for a line.
process_line(line, line_number, header, bytes_position) ==
    [data |-> line, bytes |-> bytes_position, line |-> line_number,
     header |-> (header >= line_number)]

\* set_headers(row): the slugs of the header fields.
set_headers(row) == [i \in 1..Len(row) |-> slug(row[i])]

-----------------------------------------------------------------------------
(* treelib.Tree                                                            *)

\* create_tree(): the tree holding the root node alone.
create_tree == [n \in {"root"} |-> [tag |-> "root", parent |-> NoneVal, data |-> <<>>]]

contains(t, nid) == nid \in DOMAIN t

\* Tree.get_node(nid): the node (named by its identifier) or None.
get_node(t, nid) == IF contains(t, nid) THEN nid ELSE NoneVal

\* Tree.parent(nid): raises for an absent nid, None for the root.
tree_parent(t, nid) ==
    IF ~contains(t, nid) THEN Raised
    ELSE IF t[nid].parent = NoneVal \/ ~contains(t, t[nid].parent) THEN NoneVal
    ELSE t[nid].parent

\* create_node that files a node whose parent is absent under the root.
create_node_orphan_under_root(t, tag, identifier, parent, data) ==
    IF contains(t, identifier) THEN [raised |-> TRUE, tree |-> t]
    ELSE [raised |-> FALSE,
          tree |-> (identifier :> [tag |-> tag,
                                   parent |-> IF contains(t, parent) THEN parent ELSE "root",
                                   data |-> data]) @@ t]

\* create_node that does not look for the parent in the tree.
create_node_any_parent(t, tag, identifier, parent, data) ==
    IF contains(t, identifier) THEN [raised |-> TRUE, tree |-> t]
    ELSE [raised |-> FALSE,
          tree |-> (identifier :> [tag |-> tag, parent |-> parent, data |-> data]) @@ t]

\* create_node that checks the parent after it has stored the node.
create_node_checked_after(t, tag, identifier, parent, data) ==
    IF contains(t, identifier) THEN [raised |-> TRUE, tree |-> t]
    ELSE [raised |-> ~contains(t, parent),
          tree |-> (identifier :> [tag |-> tag, parent |-> parent, data |-> data]) @@ t]

\* Tree.create_node(tag, identifier, parent, data): DuplicatedNodeIdError
\* for an identifier already in the tree, NodeIDAbsentError for an absent
\* parent, else the tree with the node added.
create_node(t, tag, identifier, parent, data) ==
    IF contains(t, identifier) THEN [raised |-> TRUE, tree |-> t]
    ELSE IF ~contains(t, parent) THEN [raised |-> TRUE, tree |-> t]
    ELSE [raised |-> FALSE,
          tree |-> (identifier :> [tag |-> tag, parent |-> parent, data |-> data]) @@ t]

\* Tree.update_node(nid, data=...).
update_node(t, nid, data) == [t EXCEPT ![nid].data = data]

-----------------------------------------------------------------------------
(* TaxonomicTreeBuilder                                                    *)

\* add_node_to_tree that leaves the counter raised when create_node fails.
add_node_to_tree_no_rollback(t, nds, nrr, tag, parent, data) ==
    LET n1 == nrr + 1
        r == create_node(t, tag, Lower(tag), Lower(parent), ("id" :> n1) @@ data)
    IN  IF r.raised
        THEN [raised |-> TRUE, tree |-> r.tree, nodes |-> nds, num_read_rows |-> n1]
        ELSE [raised |-> FALSE, tree |-> r.tree, nodes |-> Append(nds, Lower(tag)),
              num_read_rows |-> n1]

\* add_node_to_tree(tag, parent, data): the counter is raised, the node is
\* created with data['id'] set to it; on an exception the counter is put
\* back and the exception raised again (the tree stays as create_node left
\* it), else the identifier is appended.
add_node_to_tree(t, nds, nrr, tag, parent, data) ==
    LET n1 == nrr + 1
        identifier == Lower(tag)
        par == Lower(parent)
        d == ("id" :> n1) @@ data
        r == create_node(t, tag, identifier, par, d)
    IN  IF r.raised
        THEN [raised |-> TRUE, tree |-> r.tree, nodes |-> nds, num_read_rows |-> n1 - 1]
        ELSE [raised |-> FALSE, tree |-> r.tree, nodes |-> Append(nds, identifier),
              num_read_rows |-> n1]

\* get_parent(nid) of build_classification: Tree.parent, None on exception.
get_parent(t, nid) ==
    LET node == tree_parent(t, nid) IN IF node = Raised THEN NoneVal ELSE node

RECURSIVE walk_up(_, _)
\* The while loop of build_classification from a node upwards.
walk_up(t, node) ==
    IF node = NoneVal THEN <<>>
    ELSE << <<t[node].tag, get_value_or_default(t[node].data, "id", 0)>> >>
         \o walk_up(t, get_parent(t, node))

\* build_classification that starts the walk at the node itself.
build_classification_from_self(t, nid) == walk_up(t, nid)

\* build_classification(nid): (tag, id) of every ancestor, nearest first,
\* the root included.
build_classification(t, nid) == walk_up(t, get_parent(t, nid))

RECURSIVE DictKeys_reversed(_)
\* dict(pairs).keys() listed last pair first.
DictKeys_reversed(pairs) ==
    IF pairs = <<>> THEN <<>>
    ELSE <<pairs[Len(pairs)][1]>> \o DictKeys_reversed(SubSeq(pairs, 1, Len(pairs) - 1))

RECURSIVE DictKeys(_)
\* list(dict(pairs).keys()): the keys in order of first occurrence.
DictKeys(pairs) ==
    IF pairs = <<>> THEN <<>>
    ELSE LET init == DictKeys(SubSeq(pairs, 1, Len(pairs) - 1))
             k == pairs[Len(pairs)][1]
         IN  IF \E i \in 1..Len(init) : init[i] = k THEN init ELSE Append(init, k)

\* list(dict(pairs).values()): for each key the value of its last pair.
DictValues(pairs) ==
    LET ks == DictKeys(pairs)
    IN  [i \in 1..Len(ks) |->
            LET j == CHOOSE j \in 1..Len(pairs) :
                        /\ pairs[j][1] = ks[i]
                        /\ \A m \in (j + 1)..Len(pairs) : pairs[m][1] # ks[i]
            IN  pairs[j][2]]

\* The accepted-usage node itself taken as the parent (a synonym filed as a
\* child of its accepted usage).
accepted_parent_as_child(t, acceptedNameUsageId) ==
    LET node == get_node(t, Lower(acceptedNameUsageId))
    IN  IF node = NoneVal THEN Raised ELSE node

\* Lines 384-389 of build_tree: the parent of the accepted-usage node, or
\* Raised when fetch_node returns None or the node has no parent.
accepted_parent(t, acceptedNameUsageId) ==
    LET node == get_node(t, Lower(acceptedNameUsageId))
    IN  IF node = NoneVal THEN Raised
        ELSE LET par == tree_parent(t, node)
             IN  IF par = NoneVal THEN Raised ELSE par

\* The classification attached whole, its last entry (the root) included.
with_classification_keep_root(t, nid) ==
    LET classification == build_classification(t, nid)
    IN  update_node(t, nid,
            ("classification" :> DictKeys(classification))
            @@ ("classification_ids" :> DictValues(classification))
            @@ t[nid].data)

\* The classification attached farthest ancestor first.
with_classification_farthest_first(t, nid) ==
    LET classification == build_classification(t, nid)
        cut == SubSeq(classification, 1, Len(classification) - 1)
    IN  IF Len(classification) > 0
        THEN update_node(t, nid,
                 ("classification" :> Reverse(DictKeys(cut)))
                 @@ ("classification_ids" :> Reverse(DictValues(cut)))
                 @@ t[nid].data)
        ELSE t

\* Lines 401-405 of build_tree: the data of the node just inserted, with
\* the classification without its last entry (the root) attached.
with_classification(t, nid) ==
    LET classification == build_classification(t, nid)
        cut == SubSeq(classification, 1, Len(classification) - 1)
    IN  IF Len(classification) > 0
        THEN update_node(t, nid,
                 ("classification" :> DictKeys(cut))
                 @@ ("classification_ids" :> DictValues(cut))
                 @@ t[nid].data)
        ELSE t

\* build_tree(row) on the builder state (tree, nodes, num_read_rows,
\* rownum, __faild_rows).  result: "header" (skipped), "deferred" (offset
\* appended to __faild_rows), "inserted", or "raised" (an exception leaves
\* build_tree).
build_tree(row, t, nds, nrr, rn, fr) ==
    LET data == row.data
        same == [result |-> "header", tree |-> t, nodes |-> nds,
                 num_read_rows |-> nrr, rownum |-> rn, faild_rows |-> fr]
        deferred == [same EXCEPT !.result = "deferred",
                                 !.faild_rows = Append(fr, row.bytes)]
    IN  IF Len(data) < 3 THEN [same EXCEPT !.result = "raised"]
        ELSE
        LET taxonId == data[1]
            parentId0 == Lower(data[2])
            acceptedNameUsageId == Lower(data[3])
        IN  IF row.header THEN same
            ELSE
            LET parentId == IF Len(acceptedNameUsageId) > 0
                            THEN accepted_parent(t, acceptedNameUsageId)
                            ELSE parentId0
                data_attributes == [bytes |-> row.bytes]
            IN  IF parentId = Raised THEN deferred
                ELSE IF Len(parentId) > 0
                THEN LET a == add_node_to_tree(t, nds, nrr, taxonId, parentId,
                                               data_attributes)
                     IN  IF a.raised
                         THEN [deferred EXCEPT !.tree = a.tree,
                                               !.num_read_rows = a.num_read_rows]
                         ELSE [result |-> "inserted",
                               tree |-> with_classification(a.tree, Lower(taxonId)),
                               nodes |-> a.nodes,
                               num_read_rows |-> a.num_read_rows,
                               rownum |-> rn + 1, faild_rows |-> fr]
                ELSE LET a == add_node_to_tree(t, nds, nrr, taxonId, "root",
                                               data_attributes)
                     IN  IF a.raised
                         THEN [same EXCEPT !.result = "raised",
                                           !.tree = a.tree,
                                           !.num_read_rows = a.num_read_rows]
                         ELSE [result |-> "inserted", tree |-> a.tree,
                               nodes |-> a.nodes,
                               num_read_rows |-> a.num_read_rows,
                               rownum |-> rn + 1, faild_rows |-> fr]

\* The builder as __init__ leaves it, in the shape build_tree returns.
fresh_builder ==
    [result |-> "header", tree |-> create_tree, nodes |-> <<>>,
     num_read_rows |-> 0, rownum |-> 0, faild_rows |-> <<>>]

RECURSIVE first_pass(_, _, _, _)
\* processing(), first loop, run from position pos of file f to the end of
\* the file (or to an exception leaving build_tree) on builder state st.
first_pass(f, pos, ln, st) ==
    LET rl == read_line(f, pos)
    IN  IF rl.eof \/ st.result = "raised" THEN st
        ELSE first_pass(f, rl.next, ln + 1,
                 build_tree(process_line(rl.line, ln, 1, rl.bytes), st.tree, st.nodes,
                            st.num_read_rows, st.rownum, st.faild_rows))

\* dict(zip(headers, data)): a value for each header that has one, the
\* last one for a header name that occurs twice.
zip_dict(hs, data) ==
    LET n == Min(Len(hs), Len(data))
    IN  [h \in {hs[i] : i \in 1..n} |->
            data[CHOOSE i \in 1..n :
                    hs[i] = h /\ \A j \in (i + 1)..n : hs[j] # h]]

-----------------------------------------------------------------------------
(* State                                                                   *)

VARIABLES
    file,                \* the input file (set_filename)
    pc,                  \* where processing() is
    fpos,                \* first pass: position of the file handle of read()
    line_number,         \* first pass: line_number of read()
    latest_bytes,        \* first pass: latest_bytes of read(), -1 for None
    yielded,             \* first pass: the rows read(header=1) has yielded, in order
    headers,             \* self.headers
    tree,                \* self.tree
    nodes,               \* self.nodes
    num_read_rows,       \* self.num_read_rows
    rownum,              \* self.rownum
    faild_rows,          \* the class attribute TaxonomicTreeBuilder.__faild_rows
    own_faild_rows,      \* the instance attribute p.__faild_rows, once bound
    retry_i,             \* retry pass: entries of __faild_rows iterated so far
    extented_callbacks,  \* TaxonomicTreeBuilder.__extented_callbacks
    process_callbacks,   \* TaxonomicTreeBuilder.__process_callbacks
    cb_i,                \* callbacks run so far
    exp_i,               \* save_to_database: i of enumerate(nodes)
    str_statements,      \* save_to_database: the batch being built
    submitted,           \* batches handed to executor.submit, in order
    max_workers,         \* executor: its number of worker threads, 0 while there is none
    queue,               \* executor: submitted batches no worker has taken yet
    inflight,            \* executor: batches taken by a worker, not yet executed
    executed,            \* batches run by execute_bulk_statements, in order
    cb_result,           \* what the last callback returned to processing()
    run,                 \* which builder of the process is running (1, 2, ..)
    first_run            \* the outcome of the first builder, once it is over

reader == <<fpos, line_number, latest_bytes, yielded, headers>>
builder == <<tree, nodes, num_read_rows, rownum>>
callbacks == <<extented_callbacks, process_callbacks, cb_i>>
export == <<exp_i, str_statements, submitted>>
pool == <<max_workers, queue, inflight, executed, cb_result>>
runs == <<run, first_run>>
vars == <<file, pc, reader, builder, faild_rows, own_faild_rows, retry_i, callbacks, export, pool,
          runs>>

\* The module-level script up to p.processing(): a fresh builder, the
\* file name set, save_to_database registered with extends().
StartOfRun ==
    /\ pc = "first"
    /\ fpos = 0
    /\ line_number = 1
    /\ latest_bytes = -1
    /\ yielded = <<>>
    /\ headers = <<>>
    /\ tree = create_tree
    /\ nodes = <<>>
    /\ num_read_rows = 0
    /\ rownum = 0
    /\ faild_rows = <<>>
    /\ own_faild_rows = [bound |-> FALSE, rows |-> <<>>]
    /\ retry_i = 0
    /\ extented_callbacks = <<"save_to_database">>
    /\ process_callbacks = <<>>
    /\ cb_i = 0
    /\ exp_i = 0
    /\ str_statements = <<>>
    /\ submitted = <<>>
    /\ max_workers = 0
    /\ queue = <<>>
    /\ inflight = {}
    /\ executed = <<>>
    /\ cb_result = "NotCalled"
    /\ run = 1
    /\ first_run = <<>>

Init == file \in Files /\ StartOfRun

\* The same run on an input file that may hold malformed lines.
InitMalformed == file \in FilesWithMalformedLines /\ StartOfRun

\* The effect of build_tree(row) on the builder and on __faild_rows.
Built(r) ==
    /\ tree' = r.tree
    /\ nodes' = r.nodes
    /\ num_read_rows' = r.num_read_rows
    /\ rownum' = r.rownum
    /\ faild_rows' = r.faild_rows

\* processing(), first loop: read(header=1) yields the next line and
\* build_tree handles it; an exception leaving build_tree ends the run.
ReadRow ==
    /\ pc = "first"
    /\ LET rl == read_line(file, fpos)
       IN  /\ latest_bytes # rl.bytes
           /\ ~rl.eof
           /\ LET row == process_line(rl.line, line_number, 1, rl.bytes)
                  r == build_tree(row, tree, nodes, num_read_rows, rownum, faild_rows)
              IN  /\ Built(r)
                  /\ yielded' = Append(yielded, row)
                  /\ headers' = IF row.header THEN set_headers(row.data) ELSE headers
                  /\ fpos' = rl.next
                  /\ IF r.result = "raised"
                     THEN /\ pc' = "crashed"
                          /\ UNCHANGED <<line_number, latest_bytes>>
                     ELSE /\ pc' = "first"
                          /\ line_number' = line_number + 1
                          /\ latest_bytes' = rl.bytes
    /\ UNCHANGED <<runs, file, own_faild_rows, retry_i, callbacks, export, pool>>

\* processing(): read() stops at the end of the file (or when the position
\* did not advance) and the loop over __faild_rows begins.
EndFirstPass ==
    /\ pc = "first"
    /\ LET rl == read_line(file, fpos)
       IN  latest_bytes = rl.bytes \/ rl.eof
    /\ pc' = "retry"
    /\ retry_i' = 0
    /\ UNCHANGED <<runs, file, own_faild_rows, reader, builder, faild_rows, callbacks, export, pool>>

\* The seek read made with header=1: the line read counts as a header row.
seek_row_as_header(f, bytes) ==
    LET rl == read_line(f, bytes) IN process_line(rl.line, 1, 1, rl.bytes)

\* read(header=0, seek_bytes=bytes) as the retry loop and fetch_node call
\* it: the row of the one line read at that offset (line_number 1, so with
\* header=0 it is no header row).
seek_row(f, bytes) ==
    LET rl == read_line(f, bytes) IN process_line(rl.line, 1, 0, rl.bytes)

\* read(header=0, seek_bytes=bytes), lines 285-291: the rows the generator
\* yields, none when readline() returns nothing at that offset, else the
\* row of the one line read there.
read_seek(f, bytes) ==
    IF read_line(f, bytes).eof THEN <<>> ELSE <<seek_row(f, bytes)>>

\* processing(), second loop: `for bytes in self.__faild_rows` takes the
\* next entry of the list (the class attribute, the list object build_tree
\* appends to while the instance has no attribute of its own), reads
\* the line at that offset with read(header=0, seek_bytes=bytes) and hands
\* it to build_tree.
\* The list grows without bound in the code; the model follows a run only
\* while the list holds at most MaxFaild entries.
RetryRow ==
    /\ pc = "retry"
    /\ retry_i < Len(faild_rows)
    /\ LET bytes == faild_rows[retry_i + 1]
           rl == read_line(file, bytes)
           row == seek_row(file, bytes)
           r == build_tree(row, tree, nodes, num_read_rows, rownum, faild_rows)
       IN  IF rl.eof
           THEN /\ pc' = "retry"
                /\ UNCHANGED <<builder, faild_rows>>
           ELSE /\ Len(r.faild_rows) <= MaxFaild
                /\ Built(r)
                /\ pc' = IF r.result = "raised" THEN "crashed" ELSE "retry"
    /\ retry_i' = retry_i + 1
    /\ UNCHANGED <<runs, file, own_faild_rows, reader, callbacks, export, pool>>

\* processing(): the loop over __faild_rows is exhausted; the assignment
\* `self.__faild_rows = []` binds an empty list to the instance (the class
\* attribute keeps the list built so far) and __set_extented_callbacks pops
\* every extended callback onto __process_callbacks.
EndRetry ==
    /\ pc = "retry"
    /\ retry_i = Len(faild_rows)
    /\ own_faild_rows' = [bound |-> TRUE, rows |-> <<>>]
    /\ process_callbacks' = process_callbacks \o Reverse(extented_callbacks)
    /\ extented_callbacks' = <<>>
    /\ cb_i' = 0
    /\ pc' = "callbacks"
    /\ UNCHANGED <<runs, file, reader, builder, faild_rows, retry_i, export, pool>>

\* processing(): `for cb in self.__process_callbacks: cb(self, self.nodes)`
\* calls the next callback, save_to_database, which creates the executor
\* (line 621) with the default number of workers of the host it runs on.
StartExport ==
    /\ pc = "callbacks"
    /\ cb_i < Len(process_callbacks)
    /\ pc' = "export"
    /\ exp_i' = 0
    /\ str_statements' = <<>>
    /\ \E cpu_count \in CpuCounts : max_workers' = default_max_workers(cpu_count)
    /\ UNCHANGED <<runs, file, own_faild_rows, reader, builder, faild_rows, retry_i, callbacks, submitted,
                   queue, inflight, executed, cb_result>>

\* The statement save_to_database builds for one node: the row re-read at
\* the node's offset joined with the node's id and cached classification.
statement_of(f, t, hs, nid) ==
    LET data_attributes == t[Lower(nid)].data
        raw == seek_row(f, data_attributes["bytes"])
    IN  [id |-> get_value_or_default(data_attributes, "id", 1),
         values |-> zip_dict(hs, raw.data),
         parents |-> get_value_or_default(data_attributes, "classification", <<>>),
         parent_ids |-> get_value_or_default(data_attributes, "classification_ids", <<>>)]

\* Lines 635-638 with the batch submitted before the statement is appended
\* to it, the statement of the submitting iteration left out.
LoopStep_row_left_out(statement) ==
    /\ pc = "export"
    /\ exp_i < Len(nodes)
    /\ IF exp_i > 0 /\ exp_i % BatchModulus = 0
       THEN /\ submitted' = Append(submitted, str_statements)
            /\ queue' = Append(queue, Len(submitted) + 1)
            /\ str_statements' = <<>>
       ELSE /\ str_statements' = Append(str_statements, statement)
            /\ UNCHANGED <<submitted, queue>>
    /\ exp_i' = exp_i + 1
    /\ UNCHANGED <<runs, file, own_faild_rows, pc, reader, builder, faild_rows, retry_i, callbacks,
                   inflight, executed, cb_result, max_workers>>

\* Lines 635-638 made to wait until the pool has run every batch submitted
\* so far.
LoopStep_after_pool_idle(statement) ==
    /\ pc = "export"
    /\ exp_i < Len(nodes)
    /\ queue = <<>>
    /\ inflight = {}
    /\ LET batch == Append(str_statements, statement)
       IN  IF exp_i > 0 /\ exp_i % BatchModulus = 0
           THEN /\ submitted' = Append(submitted, batch)
                /\ queue' = Append(queue, Len(submitted) + 1)
                /\ str_statements' = <<>>
           ELSE /\ str_statements' = batch
                /\ UNCHANGED <<submitted, queue>>
    /\ exp_i' = exp_i + 1
    /\ UNCHANGED <<runs, file, own_faild_rows, pc, reader, builder, faild_rows, retry_i, callbacks,
                   inflight, executed, cb_result, max_workers>>

\* Lines 635-638 with the node marked as exported in its data dict, the
\* dict the tree holds.
LoopStep_marks_node(statement) ==
    /\ pc = "export"
    /\ exp_i < Len(nodes)
    /\ LET batch == Append(str_statements, statement)
       IN  IF exp_i > 0 /\ exp_i % BatchModulus = 0
           THEN /\ submitted' = Append(submitted, batch)
                /\ queue' = Append(queue, Len(submitted) + 1)
                /\ str_statements' = <<>>
           ELSE /\ str_statements' = batch
                /\ UNCHANGED <<submitted, queue>>
    /\ exp_i' = exp_i + 1
    /\ tree' = update_node(tree, nodes[exp_i + 1],
                           ("exported" :> TRUE) @@ tree[nodes[exp_i + 1]].data)
    /\ UNCHANGED <<runs, file, own_faild_rows, pc, reader, nodes, num_read_rows, rownum,
                   faild_rows, retry_i, callbacks, inflight, executed, cb_result, max_workers>>

\* save_to_database, lines 635-638 of an iteration of the loop over the
\* nodes, given the statement built for the node: the statement is appended
\* to the batch, and when i > 0 and i % 100 == 0 the batch is handed to
\* executor.submit, which queues it, and a new batch is begun.  The loop
\* does not look at the batches submitted before.
LoopStep(statement) ==
    /\ pc = "export"
    /\ exp_i < Len(nodes)
    /\ LET batch == Append(str_statements, statement)
       IN  IF exp_i > 0 /\ exp_i % BatchModulus = 0
           THEN /\ submitted' = Append(submitted, batch)
                /\ queue' = Append(queue, Len(submitted) + 1)
                /\ str_statements' = <<>>
           ELSE /\ str_statements' = batch
                /\ UNCHANGED <<submitted, queue>>
    /\ exp_i' = exp_i + 1
    /\ UNCHANGED <<runs, file, own_faild_rows, pc, reader, builder, faild_rows, retry_i, callbacks,
                   inflight, executed, cb_result, max_workers>>

\* save_to_database, one iteration of `for i, node in enumerate(nodes)`:
\* the statement of the node is built and lines 635-638 are run with it.
ExportRow ==
    /\ pc = "export"
    /\ exp_i < Len(nodes)
    /\ LoopStep(statement_of(file, tree, headers, nodes[exp_i + 1]))

\* save_to_database after the loop: a non-empty remainder is submitted, and
\* the `with ThreadPoolExecutor()` block is left.
ExportFlush ==
    /\ pc = "export"
    /\ exp_i = Len(nodes)
    /\ IF Len(str_statements) > 0
       THEN /\ submitted' = Append(submitted, str_statements)
            /\ queue' = Append(queue, Len(submitted) + 1)
            /\ str_statements' = <<>>
       ELSE UNCHANGED <<submitted, queue, str_statements>>
    /\ pc' = "shutdown"
    /\ UNCHANGED <<runs, file, own_faild_rows, reader, builder, faild_rows, retry_i, exp_i,
                   callbacks, inflight, executed, cb_result, max_workers>>

\* A worker thread of the executor takes the batch at the head of the queue.
WorkerTake ==
    /\ pc \in {"export", "shutdown"}
    /\ queue # <<>>
    /\ Cardinality(inflight) < max_workers
    /\ inflight' = inflight \cup {Head(queue)}
    /\ queue' = Tail(queue)
    /\ UNCHANGED <<runs, file, pc, reader, builder, faild_rows, own_faild_rows, retry_i, callbacks,
                   export, executed, cb_result, max_workers>>

\* execute_bulk_statements(statements) in a worker thread: the storage
\* accepts the batch or fails on it (get_connection or cursor.execute
\* raises).  A failure is printed, or kept in the Future that submit
\* returned and save_to_database dropped; either way the worker goes on.
WorkerExecute ==
    /\ pc \in {"export", "shutdown"}
    /\ \E b \in inflight, ok \in BOOLEAN :
          /\ executed' = Append(executed, [batch |-> b, ok |-> ok])
          /\ inflight' = inflight \ {b}
    /\ UNCHANGED <<runs, file, pc, reader, builder, faild_rows, own_faild_rows, retry_i, callbacks,
                   export, queue, cb_result, max_workers>>

\* The `with` block left as by executor.shutdown(wait=False):
\* save_to_database returns without waiting for the batches it submitted.
ExportReturn_without_waiting ==
    /\ pc = "shutdown"
    /\ cb_result' = NoneVal
    /\ max_workers' = 0
    /\ cb_i' = cb_i + 1
    /\ pc' = "callbacks"
    /\ UNCHANGED <<runs, file, own_faild_rows, reader, builder, faild_rows, retry_i, export,
                   extented_callbacks, process_callbacks, queue, inflight, executed>>

\* Leaving the `with` block is executor.shutdown(wait=True): once every
\* submitted batch has been run, the executor is gone and save_to_database
\* returns None.
ExportReturn ==
    /\ pc = "shutdown"
    /\ queue = <<>>
    /\ inflight = {}
    /\ cb_result' = NoneVal
    /\ max_workers' = 0
    /\ cb_i' = cb_i + 1
    /\ pc' = "callbacks"
    /\ UNCHANGED <<runs, file, own_faild_rows, reader, builder, faild_rows, retry_i, export,
                   extented_callbacks, process_callbacks, queue, inflight, executed>>

\* processing() returns after the last callback.
EndProcessing ==
    /\ pc = "callbacks"
    /\ cb_i = Len(process_callbacks)
    /\ pc' = "done"
    /\ UNCHANGED <<runs, file, own_faild_rows, reader, builder, faild_rows, retry_i, callbacks, export, pool>>

Next ==
    \/ ReadRow
    \/ EndFirstPass
    \/ RetryRow
    \/ EndRetry
    \/ StartExport
    \/ ExportRow
    \/ ExportFlush
    \/ WorkerTake
    \/ WorkerExecute
    \/ ExportReturn
    \/ EndProcessing

Spec == Init /\ [][Next]_vars

\* The module-level script run again in the same process once processing()
\* has returned: p = TaxonomicTreeBuilder() makes a fresh builder (tree,
\* nodes, counters and headers of its own, no __faild_rows attribute of its
\* own), the same file name is set, save_to_database is registered with
\* extends() and processing() is called.  The lists __faild_rows,
\* __extented_callbacks and __process_callbacks are attributes of the class
\* (lines 179-182) and stay as the first builder left them.
SecondRun ==
    /\ pc = "done"
    /\ run < MaxRuns
    /\ run' = run + 1
    /\ first_run' = IF run = 1
                    THEN [tree |-> tree, nodes |-> nodes, submitted |-> submitted]
                    ELSE first_run
    /\ pc' = "first"
    /\ fpos' = 0
    /\ line_number' = 1
    /\ latest_bytes' = -1
    /\ yielded' = <<>>
    /\ headers' = <<>>
    /\ tree' = create_tree
    /\ nodes' = <<>>
    /\ num_read_rows' = 0
    /\ rownum' = 0
    /\ own_faild_rows' = [bound |-> FALSE, rows |-> <<>>]
    /\ retry_i' = 0
    /\ extented_callbacks' = Append(extented_callbacks, "save_to_database")
    /\ cb_i' = 0
    /\ exp_i' = 0
    /\ str_statements' = <<>>
    /\ submitted' = <<>>
    /\ max_workers' = 0
    /\ queue' = <<>>
    /\ inflight' = {}
    /\ executed' = <<>>
    /\ cb_result' = "NotCalled"
    /\ UNCHANGED <<file, faild_rows, process_callbacks>>

NextTwoRuns == Next \/ SecondRun

SpecTwoRuns == Init /\ [][NextTwoRuns]_vars

SpecMalformed == InitMalformed /\ [][Next]_vars

\* The same run on a long input file.
InitLong == file \in LongFiles /\ StartOfRun

SpecLong == InitLong /\ [][Next]_vars

-----------------------------------------------------------------------------
(* Vocabulary of the properties                                            *)

RangeOf(q) == {q[i] : i \in 1..Len(q)}

\* The data lines of the file (line 1 is the header) and their fields.
DataLines == 2..Len(file)
Off(k) == OffsetOf(file, k)
LineTag(k) == file[k][1]
LineId(k) == Lower(file[k][1])
LineParent(k) == Lower(file[k][2])
LineAccepted(k) == Lower(file[k][3])

\* The nodes other than the synthetic root.
Taxa == DOMAIN tree \ {"root"}

\* The node created from data line k, if any.
InsertedFrom(k) == \E n \in Taxa : tree[n].data["bytes"] = Off(k)
NodeFrom(k) == CHOOSE n \in Taxa : tree[n].data["bytes"] = Off(k)

\* The cached lineage of a node as the export reads it.
Lineage(n) == get_value_or_default(tree[n].data, "classification", <<>>)
LineageIds(n) == get_value_or_default(tree[n].data, "classification_ids", <<>>)
SequenceId(n) == get_value_or_default(tree[n].data, "id", 0)

\* Retry attempts made so far on a byte offset, and whether another one
\* awaits it in the list the retry loop iterates.
RetryAttempts(off) == Cardinality({j \in 1..Min(retry_i, Len(faild_rows)) : faild_rows[j] = off})
Pending(off) ==
    pc = "retry" /\ \E j \in (retry_i + 1)..Len(faild_rows) : faild_rows[j] = off

PastRetry == pc \in {"callbacks", "export", "shutdown", "done"}

\* self.__faild_rows as read from the builder: the failure report.
FailureReport == IF own_faild_rows.bound THEN own_faild_rows.rows ELSE faild_rows

\* What build_tree would do now with the line at a byte offset.
RetryResult(off) ==
    build_tree(seek_row(file, off), tree, nodes, num_read_rows, rownum, faild_rows).result

\* Every offset the retry loop has still to iterate fails against the
\* tree as it is.  Each such retry leaves the tree as it was and appends
\* the offset again, so the next state is of this kind too and the loop
\* `for bytes in self.__faild_rows` never reaches the end of the list.
RetryStuck ==
    /\ pc = "retry"
    /\ retry_i < Len(faild_rows)
    /\ \A j \in (retry_i + 1)..Len(faild_rows) : RetryResult(faild_rows[j]) = "deferred"

\* Once stuck, stuck for ever (checked as a lemma for C2).
StuckForEver == [][RetryStuck => RetryStuck']_vars

-----------------------------------------------------------------------------
(* C1 *)

\* C1: in processing(), every byte offset deferred during the first pass is
\* re-processed exactly once in the retry pass; an offset whose retry fails
\* is never processed again.  So no offset has had more than one retry
\* attempt, and each has had exactly one when the retry loop is left.
C1_RetriedExactlyOnce ==
    /\ pc = "retry" => \A off \in RangeOf(faild_rows) : RetryAttempts(off) <= 1
    /\ (pc = "retry" /\ retry_i = Len(faild_rows)) =>
           \A off \in RangeOf(faild_rows) : RetryAttempts(off) = 1

(* C2 *)

\* C2: processing() terminates for every finite input file, also when a
\* record's parent or accepted usage never appears or its identifier is a
\* duplicate: the retry pass ends and the export callbacks are reached.
\* So the retry loop is never in a state where an offset that has failed
\* its retry awaits another one and every offset the loop has still to
\* iterate fails again: from there the loop cannot end.
C2_RetryPassEnds ==
    ~(RetryStuck /\ \E off \in RangeOf(faild_rows) :
                        RetryAttempts(off) >= 1 /\ Pending(off))

(* C3 *)

\* The parent a data line refers to (the line names no accepted usage) is
\* defined by no line of the file.
ParentNeverAppears(k) ==
    /\ LineAccepted(k) = ""
    /\ LineParent(k) \notin {"", "root"}
    /\ \A j \in DataLines : LineId(j) # LineParent(k)

\* C3: a record whose referenced parent never appears in the file is
\* reported as permanently dropped: once it has had its retry, and when
\* the run ends, its byte offset is in the failure report, no further
\* attempt awaits it, it is not a node of the tree and no node has it as
\* an ancestor.
C3_DroppedIsReported ==
    \A k \in DataLines :
        (ParentNeverAppears(k) /\ (RetryAttempts(Off(k)) >= 1 \/ PastRetry)) =>
            /\ Off(k) \in RangeOf(FailureReport)
            /\ ~Pending(Off(k))
            /\ ~InsertedFrom(k)
            /\ \A n \in Taxa : tree[n].parent = "root" \/ tree[tree[n].parent].data["bytes"] # Off(k)

-----------------------------------------------------------------------------
(* C4 *)

\* The row processing() hands to build_tree in the next step, if any.
HandlesRow ==
    \/ pc = "first" /\ ~read_line(file, fpos).eof
    \/ pc = "retry" /\ retry_i < Len(faild_rows)
CurrentRow ==
    IF pc = "first"
    THEN process_line(read_line(file, fpos).line, line_number, 1, fpos)
    ELSE seek_row(file, faild_rows[retry_i + 1])
RowHandled == HandlesRow /\ (fpos' # fpos \/ retry_i' # retry_i)

\* The row to handle is a data record whose accepted usage names a node of
\* the tree.
AcceptedIsPresent ==
    /\ HandlesRow
    /\ ~CurrentRow.header
    /\ Len(CurrentRow.data) >= 3
    /\ Len(Lower(CurrentRow.data[3])) > 0
    /\ Lower(CurrentRow.data[3]) \in DOMAIN tree

\* After the step the row's taxon is a sibling of its accepted usage.
FiledAsSibling ==
    LET nid == Lower(CurrentRow.data[1])
        acc == Lower(CurrentRow.data[3])
    IN  /\ nid \in DOMAIN tree'
        /\ tree'[nid].data["bytes"] = CurrentRow.bytes
        /\ tree'[nid].parent = tree[acc].parent

\* C4 as claimed: when build_tree handles a data record whose
\* acceptedUsageId is non-empty and names a node present in the tree, the
\* record is inserted with the accepted node's parent as its parent,
\* whatever its own parentId.
C4_SynonymInserted ==
    [][(AcceptedIsPresent /\ RowHandled) => FiledAsSibling]_vars

\* C4 amended: when build_tree handles a data record whose acceptedUsageId
\* is non-empty and names a node of the tree other than the synthetic root,
\* and the record's own identifier is not yet in the tree, the record is
\* inserted with the accepted node's parent as its parent, whatever its own
\* parentId.
C4_NewSynonymInserted ==
    [][(/\ AcceptedIsPresent
        /\ RowHandled
        /\ Lower(CurrentRow.data[3]) # "root"
        /\ Lower(CurrentRow.data[1]) \notin DOMAIN tree) => FiledAsSibling]_vars

\* A synonym naming a parent of its own was inserted, under the parent of
\* its accepted usage and not under the parent it names.
C4_Witness ==
    \E k \in DataLines :
        /\ InsertedFrom(k)
        /\ LineAccepted(k) # ""
        /\ LineParent(k) # ""
        /\ tree[NodeFrom(k)].parent # LineParent(k)
        /\ tree[NodeFrom(k)].parent = tree[LineAccepted(k)].parent
        /\ tree[NodeFrom(k)].parent # "root"

(* C5 *)

\* The node was created from a line with a non-empty acceptedUsageId.
SynonymNode(n) ==
    \E k \in DataLines : tree[n].data["bytes"] = Off(k) /\ LineAccepted(k) # ""

\* C5: a synonym row never becomes the parent of another node: no node
\* inserted from a record with a non-empty acceptedUsageId has children.
C5_SynonymHasNoChildren ==
    \A n \in Taxa : SynonymNode(n) => \A m \in Taxa : tree[m].parent # n

(* C6 *)

ExampleFile == <<HeaderLine, <<"A", "", "">>, <<"B", "A", "">>, <<"C", "", "B">>>>

ExampleTree ==
    /\ DOMAIN tree = {"root", "a", "b", "c"}
    /\ tree["a"].parent = "root"
    /\ tree["b"].parent = "a"
    /\ tree["c"].parent = "a"

\* C6 as claimed: for the rows (A, -, -), (B, A, -), (C, -, B) the tree has
\* A under root, B under A and C under A; C's lineage is empty and B's
\* lineage is [A].
C6_ExampleAsClaimed ==
    (file = ExampleFile /\ PastRetry) =>
        ExampleTree /\ Lineage("c") = <<>> /\ Lineage("b") = <<"A">>

\* C6 amended: for the rows (A, -, -), (B, A, -), (C, -, B) the tree has A
\* under root, B under A and C under A; C's lineage is [A], as B's is (C
\* is under A, not under the root), and A's lineage is empty.
C6_Example ==
    (file = ExampleFile /\ PastRetry) =>
        /\ ExampleTree
        /\ Lineage("c") = <<"A">> /\ LineageIds("c") = <<1>>
        /\ Lineage("b") = <<"A">> /\ LineageIds("b") = <<1>>
        /\ Lineage("a") = <<>>
        /\ nodes = <<"a", "b", "c">>

C6_Witness == file = ExampleFile /\ pc = "done" /\ Len(submitted) = 1

(* C7 *)

RECURSIVE Depth(_, _)
\* Edges from the synthetic root down to a node.
Depth(t, n) == IF n = "root" THEN 0 ELSE 1 + Depth(t, t[n].parent)

\* C7: for every node of the tree, after any sequence of processed
\* records, the length of its cached lineage is its depth from the
\* synthetic root minus one, and the lineage is empty if and only if the
\* node's parent is the synthetic root.
C7_LineageLength ==
    \A n \in Taxa :
        /\ Len(Lineage(n)) = Depth(tree, n) - 1
        /\ Len(LineageIds(n)) = Depth(tree, n) - 1
        /\ (Lineage(n) = <<>>) <=> (tree[n].parent = "root")

\* A node two levels below a child of the root is in the tree, its lineage
\* two labels long, with a node inserted with no parent above them.
C7_Witness ==
    /\ \E n \in Taxa : Depth(tree, n) = 3 /\ Len(Lineage(n)) = 2
    /\ \E n \in Taxa : tree[n].parent = "root" /\ "classification" \notin DOMAIN tree[n].data

(* C8 *)

RECURSIVE AncestorChain(_, _)
\* The ancestors of a node in the tree as it is, nearest first, from its
\* parent up to but excluding the synthetic root.
AncestorChain(t, n) ==
    IF t[n].parent = "root" THEN <<>>
    ELSE <<t[n].parent>> \o AncestorChain(t, t[n].parent)

ChainLabels(n) ==
    LET c == AncestorChain(tree, n) IN [i \in 1..Len(c) |-> tree[c[i]].tag]
ChainIds(n) ==
    LET c == AncestorChain(tree, n) IN [i \in 1..Len(c) |-> tree[c[i]].data["id"]]

\* Every statement the export has built so far, submitted or not.
Statements ==
    RangeOf(str_statements) \cup UNION {RangeOf(submitted[b]) : b \in 1..Len(submitted)}

\* C8: the lineage cached on a node at insertion lists the labels of its
\* ancestors nearest first, from its parent up to but excluding the
\* synthetic root, with lineageIds the same ancestors' sequenceIds; the
\* cached value equals the node's ancestor chain in the tree in every later
\* state, and the export writes it as cached.
C8_LineageIsAncestorChain ==
    /\ \A n \in Taxa : Lineage(n) = ChainLabels(n) /\ LineageIds(n) = ChainIds(n)
    /\ \A st \in Statements :
          \E n \in Taxa :
              /\ tree[n].data["id"] = st.id
              /\ st.parents = ChainLabels(n)
              /\ st.parent_ids = ChainIds(n)

\* The export has written the row of a node with two ancestors.
C8_Witness ==
    /\ pc = "done"
    /\ \E st \in Statements : Len(st.parents) = 2 /\ st.parent_ids[1] > st.parent_ids[2]

(* C9 *)

\* C9: after any interleaving of successful and failed inserts the k-th
\* inserted node has sequenceId k, the counter num_read_rows is the number
\* of entries of the node list, and the nodes of the tree are the entries
\* of the list, each once: a failed insert consumes no sequenceId.
C9_SequenceIds ==
    /\ num_read_rows = Len(nodes)
    /\ \A k \in 1..Len(nodes) : nodes[k] \in Taxa /\ tree[nodes[k]].data["id"] = k
    /\ \A n \in Taxa : \E k \in 1..Len(nodes) : nodes[k] = n
    /\ \A j, k \in 1..Len(nodes) : nodes[j] = nodes[k] => j = k

\* An insert failed, in the first pass and again in the retry pass, and a
\* node was inserted after each failure.
C9_Witness ==
    /\ pc = "retry"
    /\ \E off \in RangeOf(faild_rows) : RetryAttempts(off) >= 1 /\ Pending(off)
    /\ \E k \in DataLines :
          /\ InsertedFrom(k)
          /\ RetryAttempts(Off(k)) >= 1
          /\ tree[NodeFrom(k)].data["id"] >= 2

(* C10 *)

\* Once the first pass is over: the nodes inserted during the first pass
\* (every offset handed to the retry loop is in the class's __faild_rows).
FirstPassNodes == {n \in Taxa : tree[n].data["bytes"] \notin RangeOf(faild_rows)}

\* The line names no accepted usage, and its parent is first defined by a
\* later line of the file.
ParentAppearsLater(k) ==
    /\ LineAccepted(k) = ""
    /\ LineParent(k) \notin {"", "root"}
    /\ \E j \in DataLines : j > k /\ LineId(j) = LineParent(k)
    /\ \A j \in DataLines : j < k => LineId(j) # LineParent(k)

\* processing() is over: it has returned or is running its callbacks, or an
\* exception has left it.
RunOver == PastRetry \/ pc = "crashed"

\* Line k was deferred in the first pass and, retried, is a node under the
\* parent it names with a sequenceId above those of the first pass; a run
\* that is over has made the retry.
ResolvedByRetry(k) ==
    /\ Off(k) \in RangeOf(faild_rows)
    /\ RunOver => RetryAttempts(Off(k)) >= 1
    /\ RetryAttempts(Off(k)) >= 1 =>
          /\ InsertedFrom(k)
          /\ tree[NodeFrom(k)].parent = LineParent(k)
          /\ \A m \in FirstPassNodes : SequenceId(m) < SequenceId(NodeFrom(k))

\* C10: a record whose parent appears later in the file is deferred on the
\* first pass and inserted under that parent in the retry pass, with a
\* sequenceId greater than that of every record inserted during the first
\* pass: once the first pass is over, by its end or by an exception, the
\* record is among the deferred ones, its retry inserts it so, and no run
\* is over without that retry.
C10_OutOfOrderResolved ==
    (pc = "retry" \/ RunOver) => \A k \in DataLines : ParentAppearsLater(k) => ResolvedByRetry(k)

\* The first pass was left by an exception (line 407) after it had
\* inserted the parent of a deferred record that no other line names, and
\* the record was never retried.
AbortedBeforeRetry ==
    /\ pc = "crashed"
    /\ \E k \in DataLines :
          /\ ParentAppearsLater(k)
          /\ \A j \in DataLines : j # k => LineId(j) # LineId(k)
          /\ LineParent(k) \in FirstPassNodes
          /\ Off(k) \in RangeOf(faild_rows)
          /\ RetryAttempts(Off(k)) = 0
          /\ ~InsertedFrom(k)

\* Lemma: in a run whose first pass reaches the end of the file, a record
\* other than a namesake of the root whose identifier no other line carries
\* and whose parent first appears later in the file and is inserted during
\* the first pass is deferred and inserted under that parent by its retry,
\* with a sequenceId greater than that of every record inserted during the
\* first pass.
C10_OutOfOrderUnderFirstPassParent ==
    (pc = "retry" \/ PastRetry) =>
        \A k \in DataLines :
            (/\ ParentAppearsLater(k)
             /\ LineId(k) \notin DOMAIN create_tree
             /\ \A j \in DataLines : j # k => LineId(j) # LineId(k)
             /\ LineParent(k) \in FirstPassNodes) => ResolvedByRetry(k)

\* A record deferred in the first pass was inserted by its retry under a
\* parent that a later line defined, after two first-pass nodes.
C10_Witness ==
    /\ pc = "done"
    /\ \E k \in DataLines :
          /\ ParentAppearsLater(k)
          /\ \A j \in DataLines : j # k => LineId(j) # LineId(k)
          /\ LineParent(k) \in FirstPassNodes
          /\ InsertedFrom(k)
          /\ SequenceId(NodeFrom(k)) = 3
          /\ Cardinality(FirstPassNodes) = 2

-----------------------------------------------------------------------------
(* C11 *)

\* The parent relation of a tree: the parent of every node but the root.
ParentRelation(t) == [n \in DOMAIN t \ {"root"} |-> t[n].parent]

\* The identifier a data line is attached by: its accepted usage when it
\* names one, else its parent.
Reference(line) == IF Lower(line[3]) # "" THEN Lower(line[3]) ELSE Lower(line[2])

\* Every line that refers to a taxon some line of the body defines comes
\* after a line defining it.
ParentBeforeChild(body) ==
    \A i \in 1..Len(body) :
        (\E j \in 1..Len(body) : Lower(body[j][1]) = Reference(body[i])) =>
            \E j \in 1..(i - 1) : Lower(body[j][1]) = Reference(body[i])

\* The files holding the data lines of the input file in a
\* parent-before-child order.
SortedFiles ==
    LET n == Len(file) - 1
        perms == {q \in [1..n -> 1..n] : \A i, j \in 1..n : q[i] = q[j] => i = j}
        bodies == {[i \in 1..n |-> file[1 + q[i]]] : q \in perms}
    IN  {<<HeaderLine>> \o b : b \in {x \in bodies : ParentBeforeChild(x)}}

\* processing() of a sorted file from a fresh builder, up to the callbacks.
SortedRun(f) == first_pass(f, 0, 1, fresh_builder)

\* C11: for an input in which a record precedes its parent in the file, the
\* parent relation of the tree once the retry pass is over is the parent
\* relation obtained by processing the same rows sorted parent-before-child
\* (a processing that defers nothing, so that its first pass is all of it).
C11_SameAsSorted ==
    PastRetry =>
        \A f \in SortedFiles :
            /\ SortedRun(f).faild_rows = <<>>
            /\ SortedRun(f).result # "raised"
            /\ ParentRelation(SortedRun(f).tree) = ParentRelation(tree)

\* A record that preceded its parent was inserted by the retry pass, and
\* the run is over; the file is not in parent-before-child order and a
\* sorted file of three nodes exists.
C11_Witness ==
    /\ pc = "done"
    /\ file \notin SortedFiles
    /\ \E f \in SortedFiles : Cardinality(DOMAIN SortedRun(f).tree) = 4
    /\ \E k \in DataLines :
          /\ ParentAppearsLater(k)
          /\ InsertedFrom(k)
          /\ tree[NodeFrom(k)].parent = LineParent(k)

-----------------------------------------------------------------------------
(* C12 *)

\* The row to handle is a data record that cannot be inserted: its
\* accepted usage names no node of the tree, or its identifier is in the
\* tree already, or (naming no accepted usage) its parent is not in the tree.
CannotInsert ==
    /\ HandlesRow
    /\ ~CurrentRow.header
    /\ Len(CurrentRow.data) >= 3
    /\ LET nid == Lower(CurrentRow.data[1])
           par == Lower(CurrentRow.data[2])
           acc == Lower(CurrentRow.data[3])
       IN  \/ acc # "" /\ acc \notin DOMAIN tree
           \/ nid \in DOMAIN tree
           \/ acc = "" /\ par # "" /\ par \notin DOMAIN tree

\* C12: a failed insert (identifier already present, or parent identifier
\* absent) and a deferral caused by an absent accepted-usage node leave the
\* tree, the ordered node list and the sequence counter exactly as they
\* were before the attempt: there is no partial insert.
C12_NoPartialInsert ==
    [][(CannotInsert /\ RowHandled) => UNCHANGED <<tree, nodes, num_read_rows>>]_vars

\* After a node was inserted, a record carrying its identifier and a record
\* whose parent never appears were each refused in the first pass and again
\* by a retry.
C12_Witness ==
    /\ pc = "retry"
    /\ Len(nodes) >= 1
    /\ \E k \in DataLines :
          /\ RetryAttempts(Off(k)) >= 1
          /\ ~InsertedFrom(k)
          /\ \E j \in DataLines : j < k /\ LineId(j) = LineId(k) /\ InsertedFrom(j)
    /\ \E k \in DataLines :
          /\ RetryAttempts(Off(k)) >= 1
          /\ ParentNeverAppears(k)
          /\ LineId(k) \notin DOMAIN tree

-----------------------------------------------------------------------------
(* C13 *)

\* Data line k does not split into the three leading fields.
Malformed(k) == Len(file[k]) < 3

\* C13: a malformed record (an empty line, a line with fewer than three
\* fields) is treated as a permanently unresolved reference: once the first
\* pass has read it, the run has not aborted, the line's byte offset is in
\* the failure report (before the retry pass is over, in the list the
\* retry loop iterates) and no node was made from it.
C13_MalformedIsReported ==
    \A k \in DataLines :
        (Malformed(k) /\ fpos > Off(k)) =>
            /\ pc # "crashed"
            /\ Off(k) \in RangeOf(FailureReport)
            /\ ~InsertedFrom(k)

-----------------------------------------------------------------------------
(* C14 *)

\* The batches the storage failed on, and those it has been run on.
FailedBatches == {executed[j].batch : j \in {i \in 1..Len(executed) : ~executed[i].ok}}
ExecutedBatches == {executed[j].batch : j \in 1..Len(executed)}

\* Once the run is over every submitted batch has been run by the storage,
\* whatever happened to the others (checked as a lemma for C14).
SiblingBatchesExecuted == pc = "done" => ExecutedBatches = 1..Len(submitted)

\* C14: when the storage fails on a dispatched batch, the other batches are
\* still submitted and executed, and after the run the caller of the export
\* pipeline has received a failure indicator: what save_to_database handed
\* back to processing() is not None.
C14_FailureSurfaced ==
    (pc = "done" /\ FailedBatches # {}) =>
        /\ ExecutedBatches = 1..Len(submitted)
        /\ cb_result # NoneVal

-----------------------------------------------------------------------------
(* C15 *)

\* The step submits a batch; the batch it submits.
SubmitsBatch == Len(submitted') = Len(submitted) + 1
NewBatch == submitted'[Len(submitted')]

\* C15: in the export a batch is handed to the worker pool exactly when it
\* reaches the threshold of 100 rows: every batch the loop submits (before
\* the remainder flush) holds exactly 100 rows, and the remainder batch
\* holds between 1 and 100 rows.
C15_BatchOfThreshold ==
    [][SubmitsBatch =>
          IF pc' = "export"
          THEN Len(NewBatch) = BatchModulus
          ELSE Len(NewBatch) \in 1..BatchModulus]_vars

-----------------------------------------------------------------------------
(* C16 *)

RECURSIVE Concat(_)
\* The batches of a sequence of batches, joined in order.
Concat(batches) ==
    IF batches = <<>> THEN <<>>
    ELSE Concat(SubSeq(batches, 1, Len(batches) - 1)) \o batches[Len(batches)]

\* save_to_database has left its loop and flushed the remainder.
Flushed == pc \in {"shutdown", "done"} \/ (pc = "callbacks" /\ cb_i >= 1)

\* C16: the batches submitted by the export, joined in submission order
\* (with the batch being built at their end), hold one row per node of the
\* node list in insertion order, each exactly once: the k-th row is the
\* row of the k-th node, with its sequenceId k and its identifier.  Once
\* the remainder is flushed the rows are those of all the nodes, and no
\* submitted batch is empty.
C16_BatchesCoverNodes ==
    LET rows == Concat(submitted) \o str_statements
    IN  /\ Len(rows) = exp_i
        /\ exp_i <= Len(nodes)
        /\ \A k \in 1..Len(rows) :
              /\ rows[k].id = k
              /\ Lower(rows[k].values[headers[1]]) = nodes[k]
        /\ Flushed => (exp_i = Len(nodes) /\ str_statements = <<>>)
        /\ \A b \in 1..Len(submitted) : submitted[b] # <<>>

\* The export of more than two batch moduli of nodes is over: two batches
\* were submitted by the loop and the remainder after it.
C16_Witness ==
    /\ pc = "done"
    /\ Len(nodes) > 2 * BatchModulus
    /\ Len(submitted) = 3
    /\ Len(submitted[3]) < BatchModulus

-----------------------------------------------------------------------------
(* C17 *)

\* A batch submitted before has not been run yet.
PoolBusy == queue # <<>> \/ inflight # {}

\* C17: the export loop never waits for a batch submitted before to be run
\* before it builds and submits the next one: while such a batch is queued
\* or in a worker's hands, the loop can append the next statement
\* (whatever it is) and submit the batch and, after the last node, flush
\* the remainder.
C17_LoopNeverWaits ==
    (pc = "export" /\ PoolBusy) =>
        IF exp_i < Len(nodes) THEN ENABLED LoopStep(NoneVal) ELSE ENABLED ExportFlush

\* A batch submitted later has been run by the storage and the batch
\* submitted before it has not.
C17_Witness ==
    \E b \in 1..Len(submitted) :
        /\ b > 1
        /\ b \in ExecutedBatches
        /\ b - 1 \notin ExecutedBatches

-----------------------------------------------------------------------------
(* C18 *)

\* Nothing has been exported: no statement built, no batch submitted or run.
NothingExported ==
    /\ exp_i = 0
    /\ str_statements = <<>>
    /\ submitted = <<>>
    /\ executed = <<>>

\* Both passes are over: the first pass has read the file to its end and
\* the retry loop has gone through the whole list of deferred offsets.
BothPassesOver ==
    /\ read_line(file, fpos).eof
    /\ retry_i = Len(faild_rows)

\* C18: the export begins only after the first pass and the retry pass
\* have finished, and from then on the tree is only read: no step of the
\* export or of a worker adds, removes or re-parents a node or changes a
\* node's data (its sequenceId, its cached lineage), the node list or the
\* sequence counter.
C18_ExportOnlyReads ==
    [][/\ pc \in {"first", "retry", "crashed"} => NothingExported
       /\ pc' \in {"first", "retry", "crashed"} => NothingExported'
       /\ PastRetry => (BothPassesOver /\ UNCHANGED <<tree, nodes, num_read_rows>>)]_vars

\* The run is over: a node inserted by the retry pass, below a node of the
\* first pass, was exported with its lineage, and the storage has run the
\* batch.
C18_Witness ==
    /\ pc = "done"
    /\ Len(executed) = 1
    /\ \E k \in DataLines :
          /\ InsertedFrom(k)
          /\ RetryAttempts(Off(k)) >= 1
          /\ Lineage(NodeFrom(k)) # <<>>
          /\ \E st \in Statements : st.id = SequenceId(NodeFrom(k)) /\ st.parents # <<>>

-----------------------------------------------------------------------------
(* C19 *)

RECURSIVE ReachesRoot(_, _, _)
\* Following parents from node n leads to the synthetic root within the
\* given number of steps.
ReachesRoot(t, n, steps) ==
    \/ n = "root"
    \/ /\ steps > 0
       /\ n \in DOMAIN t
       /\ t[n].parent \in DOMAIN t
       /\ ReachesRoot(t, t[n].parent, steps - 1)

\* C19: in every reachable state of the resolution the identifiers of the
\* tree are unique (a node's identifier is its lower-cased label, the node
\* list names every node once, no two nodes come from the same line), every
\* node but the synthetic root is attached under a node that was in the
\* tree when it was inserted (the root, or a node with a smaller
\* sequenceId), and the parent relation is acyclic: every node reaches the
\* synthetic root, which alone has no parent.
C19_TreeWellFormed ==
    /\ "root" \in DOMAIN tree /\ tree["root"].parent = NoneVal
    /\ \A n \in Taxa :
          /\ Lower(tree[n].tag) = n
          /\ Cardinality({k \in 1..Len(nodes) : nodes[k] = n}) = 1
          /\ tree[n].parent \in DOMAIN tree
          /\ tree[n].parent # "root" => SequenceId(tree[n].parent) < SequenceId(n)
          /\ ReachesRoot(tree, n, Cardinality(Taxa))
    /\ \A n, m \in Taxa : tree[n].data["bytes"] = tree[m].data["bytes"] => n = m

\* The run is over with a chain of three nodes below the root, the lowest
\* of them inserted by the retry pass.
C19_Witness ==
    /\ pc = "done"
    /\ \E n \in Taxa :
          /\ Depth(tree, n) = 3
          /\ \E k \in DataLines : NodeFrom(k) = n /\ InsertedFrom(k) /\ RetryAttempts(Off(k)) >= 1

-----------------------------------------------------------------------------
(* C20 *)

\* C20: two resolution runs over the same input, each with a fresh builder,
\* give the same tree shape, the same node list and the same sequenceIds,
\* and the outcome does not depend on the deferred-record or callback state
\* the first left: the first run having returned, the second is never stuck
\* in its retry loop, once its retry pass is over its tree (parents and
\* sequenceIds) and node list are those of the first, and when it returns
\* it has submitted the batches the first submitted.
C20_SecondRunAlike ==
    run = 2 =>
        /\ ~RetryStuck
        /\ PastRetry => (tree = first_run.tree /\ nodes = first_run.nodes)
        /\ pc = "done" => submitted = first_run.submitted

-----------------------------------------------------------------------------
(* C21 *)

\* build_tree returned with the row inserted: its identifier was appended
\* to the node list and the node carries the row's offset.
RowInserted ==
    LET nid == Lower(CurrentRow.data[1])
    IN  /\ nodes' = Append(nodes, nid)
        /\ nid \in DOMAIN tree'
        /\ tree'[nid].data["bytes"] = CurrentRow.bytes

\* build_tree returned with the row deferred: its offset was appended to
\* __faild_rows.
RowDeferred == faild_rows' = Append(faild_rows, CurrentRow.bytes)

\* C21: no insertion failure aborts the run: whenever build_tree handles a
\* data record of at least three fields, a record without parentId whose
\* identifier is already in the tree included, it returns normally, the
\* record inserted or its offset deferred, and processing() goes on.
C21_NoInsertAborts ==
    [][(RowHandled /\ ~CurrentRow.header /\ Len(CurrentRow.data) >= 3)
          => (pc' # "crashed" /\ (RowInserted \/ RowDeferred))]_vars

-----------------------------------------------------------------------------
(* C22 *)

\* read(header=1) is over: processing() has left its first loop by the end
\* of the generator (not by an exception in build_tree).
StreamEnded == pc \in {"retry", "callbacks", "export", "shutdown", "done"}

\* C22: in streaming mode read() starts at offset 0 and yields the lines of
\* the file in order, the i-th row being line i with its byte offset, the
\* offsets strictly increasing; when it has ended it has yielded every line
\* of the file exactly once, and it yields nothing afterwards.
C22_StreamingRead ==
    /\ Len(yielded) <= Len(file)
    /\ \A i \in 1..Len(yielded) :
          /\ yielded[i].data = file[i]
          /\ yielded[i].line = i
          /\ yielded[i].bytes = Off(i)
    /\ Len(yielded) > 0 => yielded[1].bytes = 0
    /\ \A i \in 1..(Len(yielded) - 1) : yielded[i].bytes < yielded[i + 1].bytes
    /\ StreamEnded => Len(yielded) = Len(file)

\* read() has ended on a file of a header and two or more data lines, and
\* the run has gone on to its end.
C22_Witness ==
    /\ pc = "done"
    /\ Len(file) >= 3
    /\ Len(yielded) = Len(file)

-----------------------------------------------------------------------------
(* C23 *)

\* The statements the export has built so far.
BuiltStatements == RangeOf(Concat(submitted) \o str_statements)

\* C23: for every node of the tree, read() in seek mode at the offset the
\* node carries yields exactly one row, a data row, read at that offset,
\* and it is the row the node was created from: its first field in lower
\* case is the node's identifier.  This holds for the nodes the retry pass
\* inserts as for those of the first pass, and every statement the export
\* builds carries the fields of the row of its node.
C23_OffsetRoundTrip ==
    /\ \A n \in Taxa :
          LET rows == read_seek(file, tree[n].data["bytes"])
          IN  /\ Len(rows) = 1
              /\ ~rows[1].header
              /\ rows[1].bytes = tree[n].data["bytes"]
              /\ Len(rows[1].data) >= 1
              /\ Lower(rows[1].data[1]) = n
              /\ rows[1].data[1] = tree[n].tag
    /\ \A st \in BuiltStatements :
          \E n \in Taxa :
              /\ SequenceId(n) = st.id
              /\ \E k \in DataLines :
                    /\ Off(k) = tree[n].data["bytes"]
                    /\ LineId(k) = n
                    /\ st.values = zip_dict(headers, file[k])

\* The export is over and has built the statement of a node that the retry
\* pass inserted, from a line that is not the first data line of the file.
C23_Witness ==
    /\ pc = "done"
    /\ \E n \in Taxa :
          /\ \E k \in DataLines : Off(k) = tree[n].data["bytes"] /\ RetryAttempts(Off(k)) >= 1
          /\ \E st \in BuiltStatements : st.id = SequenceId(n)

-----------------------------------------------------------------------------
(* C24 *)

\* save_to_database has returned to processing().
Returned == cb_result # "NotCalled"

\* How many times execute_bulk_statements has been run on batch b.
TimesExecuted(b) == Cardinality({j \in 1..Len(executed) : executed[j].batch = b})

\* C24: save_to_database returns only after every batch it submitted to the
\* worker pool has been run by execute_bulk_statements, whether the storage
\* accepted it or failed on it: once it has returned no batch is queued, no
\* batch is with a worker, and every submitted batch has been run once.
C24_ReturnsAfterBatches ==
    Returned =>
        /\ queue = <<>>
        /\ inflight = {}
        /\ \A b \in 1..Len(submitted) : TimesExecuted(b) = 1
        /\ ExecutedBatches = 1..Len(submitted)

\* save_to_database has returned after submitting three batches, on one of
\* which the storage failed, the batches run in another order than
\* submitted.
C24_Witness ==
    /\ Returned
    /\ Len(submitted) >= 3
    /\ FailedBatches # {}
    /\ \E j \in 1..(Len(executed) - 1) : executed[j].batch > executed[j + 1].batch

-----------------------------------------------------------------------------
(* C25 *)

\* C25: for every node of every reachable tree, each sequenceId of its
\* lineageIds is strictly smaller than the node's own sequenceId, and the
\* lineageIds strictly decrease from the nearest ancestor to the farthest:
\* an ancestor is inserted before its descendants, in the first pass as in
\* the retry pass.
C25_LineageIdsDecrease ==
    \A n \in Taxa :
        LET ids == LineageIds(n)
        IN  /\ \A i \in 1..Len(ids) : ids[i] < SequenceId(n)
            /\ \A i \in 1..(Len(ids) - 1) : ids[i] > ids[i + 1]

\* A node inserted by the retry pass has two ancestors below the root.
C25_Witness ==
    \E n \in Taxa :
        /\ Len(LineageIds(n)) >= 2
        /\ \E k \in DataLines :
              Off(k) = tree[n].data["bytes"] /\ RetryAttempts(Off(k)) >= 1

====
